---- MODULE Spec2Model ----
(***************************************************************************)
(* Model of the arch-cli demo provisioning pipeline                        *)
(*   src/src/demo/setup.rs   setup_demo_environment, create_unique_key_name*)
(*                           get_rpc_url, update_demo_cargo_toml           *)
(*   src/src/demo/build.rs   build_frontend                                *)
(*   src/templates/demo/program/src/pubkey.rs   Pubkey                     *)
(*                                                                         *)
(* Text is a sequence of tokens.  A token is an indivisible piece of text: *)
(* one of the four recognised keys including its "=", the line feed, a hex *)
(* digit, or a word that contains none of the keys.  str::replace, the     *)
(* regex and lines() are computed token by token, so a key in the middle   *)
(* of a line is found exactly where the byte-level search finds it.        *)
(***************************************************************************)
EXTENDS Naturals, Sequences, FiniteSets, TLC

VARIABLES
    keys,        \* keys.json: key name -> [kp, pubkey, owner]
    tree,        \* extracted template trees: common, program, bip322, app
    projectsDir, \* base/projects exists
    demoDir,     \* base/projects/demo exists
    manifest,    \* base/projects/demo/Cargo.toml exists
    template,    \* the bundle's app/frontend/.env.example: [some, val]
    envExample,  \* app/frontend/.env.example: [some, val]
    env,         \* app/frontend/.env: [some, val]
    pc,          \* position of the current invocation of setup_demo_environment
    run,         \* locals of the current invocation
    calls,       \* external calls of the current invocation, in order
    start,       \* registry and .env as they were when the invocation started
    created,     \* names passed to a successful create_account, all invocations
    runs,        \* number of invocations started
    succeeded,   \* number of invocations that returned Ok
    bf,          \* a direct call sequence of build_frontend on a given file
    pk,          \* direct calls of the Pubkey functions, and the threads that
                 \* call new_unique with the process's counter
    inv          \* two processes that run the pipeline on one base directory

vars == <<keys, tree, projectsDir, demoDir, manifest, template, envExample, env, pc, run,
          calls, start, created, runs, succeeded, bf, pk, inv>>

---------------------------------------------------------------------------
(* Bounds *)

\* bytes of an identifier in the model (the program's [u8; 32], scaled down)
PubkeyBytes == 3
\* bytes of the counter of new_unique in the model (the program's u64, scaled
\* down); the counter wraps at 256^CounterBytes
CounterBytes == 2
\* threads that call new_unique
MaxThreads == 2
\* calls of new_unique in one behaviour
MaxCalls == 3
\* invocations of the pipeline in one behaviour
MaxRuns == 3
\* lines of an environment file handed directly to build_frontend
MaxLines == 4

---------------------------------------------------------------------------
(* Option values *)

None == [some |-> FALSE, val |-> <<>>]
Some(v) == [some |-> TRUE, val |-> v]

---------------------------------------------------------------------------
(* Text *)

K_PROGRAM == "VITE_PROGRAM_PUBKEY="
K_WALL == "VITE_WALL_ACCOUNT_PUBKEY="
K_NETWORK == "VITE_NETWORK="
K_RPC == "VITE_RPC_URL="
NL == "\n"

RecognizedKeys == {K_PROGRAM, K_WALL, K_NETWORK, K_RPC}

\* str::replace(from, to) for a one-token pattern: every occurrence, left to
\* right, wherever it stands in the text.
RECURSIVE replace(_, _, _)
replace(s, from, to) ==
    IF s = <<>> THEN <<>>
    ELSE IF Head(s) = from THEN to \o replace(Tail(s), from, to)
    ELSE <<Head(s)>> \o replace(Tail(s), from, to)

\* index of the first occurrence of token t in s at or after i; Len(s)+1 if none
RECURSIVE find_from(_, _, _)
find_from(s, t, i) ==
    IF i > Len(s) THEN Len(s) + 1
    ELSE IF s[i] = t THEN i
    ELSE find_from(s, t, i + 1)

\* (mutant) "." also matches the line feed: the match runs to the end of text
regex_replace_dotall(s, rep) ==
    LET i == find_from(s, K_RPC, 1)
    IN  IF i > Len(s) THEN s ELSE SubSeq(s, 1, i - 1) \o rep

\* Regex::new(r"VITE_RPC_URL=.*").replace(text, rep): the leftmost match only;
\* "." does not match the line feed, so the match runs to the end of its line.
\* The replacement text is taken literally: the URLs of the model contain no
\* "$" (the regex crate expands $name references in a replacement).
regex_replace(s, rep) ==
    LET i == find_from(s, K_RPC, 1)
        j == find_from(s, NL, i)
    IN  IF i > Len(s) THEN s
        ELSE SubSeq(s, 1, i - 1) \o rep \o SubSeq(s, j, Len(s))

\* build_frontend on the text it read from the file: lines 17-33
build_frontend(content, rpc_url, program_pubkey, wall_pubkey, network) ==
    LET c1 == replace(content, K_PROGRAM, <<K_PROGRAM>> \o program_pubkey)
        c2 == replace(c1, K_WALL, <<K_WALL>> \o wall_pubkey)
        c3 == replace(c2, K_NETWORK, <<K_NETWORK>> \o network)
    IN  IF rpc_url.some THEN regex_replace(c3, <<K_RPC>> \o rpc_url.val)
        ELSE c3

\* str::lines(): the text split at line feeds; a final line feed ends the last
\* line and starts no empty one.
RECURSIVE lines(_)
lines(s) ==
    IF s = <<>> THEN <<>>
    ELSE LET j == find_from(s, NL, 1)
         IN  <<SubSeq(s, 1, j - 1)>> \o lines(SubSeq(s, j + 1, Len(s)))

\* line.strip_prefix(key)
strip_prefix(line, key) ==
    IF line # <<>> /\ Head(line) = key THEN Some(Tail(line)) ELSE None

\* lines().find_map(|line| line.strip_prefix(key)).unwrap_or("")
RECURSIVE find_map_prefix(_, _)
find_map_prefix(ls, key) ==
    IF ls = <<>> THEN <<>>
    ELSE IF strip_prefix(Head(ls), key).some THEN strip_prefix(Head(ls), key).val
    ELSE find_map_prefix(Tail(ls), key)

env_value(content, key) == find_map_prefix(lines(content), key)

---------------------------------------------------------------------------
(* Identifiers: pubkey.rs, and the derivation used by setup.rs line 132 *)

HexChars == <<"0", "1", "2", "3", "4", "5", "6", "7",
              "8", "9", "a", "b", "c", "d", "e", "f">>

RECURSIVE Pow(_, _)
Pow(b, n) == IF n = 0 THEN 1 ELSE b * Pow(b, n - 1)

\* (mutant) the last byte of the data is not copied
from_slice_short(data) ==
    [panic |-> Len(data) > PubkeyBytes,
     bytes |-> [i \in 1..PubkeyBytes |-> IF i < Len(data) THEN data[i] ELSE 0]]

\* Pubkey::from_slice: a zeroed array, its first data.len() bytes overwritten;
\* the slice tmp[..data.len()] is out of range, and the call panics, when the
\* data is longer than the array.
from_slice(data) ==
    [panic |-> Len(data) > PubkeyBytes,
     bytes |-> [i \in 1..PubkeyBytes |-> IF i <= Len(data) THEN data[i] ELSE 0]]

\* Pubkey::serialize
serialize(pubkey) == pubkey.bytes

\* impl From<[u8; 32]> for Pubkey
From(value) == [panic |-> FALSE, bytes |-> value]

\* the derived Ord of Pubkey: the byte arrays compared lexicographically
RECURSIVE cmp_less(_, _)
cmp_less(a, b) ==
    IF a = <<>> \/ b = <<>> THEN a = <<>> /\ b # <<>>
    ELSE IF Head(a) # Head(b) THEN Head(a) < Head(b)
    ELSE cmp_less(Tail(a), Tail(b))

\* static I: AtomicU64 = AtomicU64::new(1)
I_INITIAL == 1

\* AtomicU64::fetch_add: one indivisible step that returns the old value and
\* stores the sum, which wraps at the width of the counter
fetch_add(counter, val) ==
    [old |-> counter, new |-> (counter + val) % Pow(256, CounterBytes)]

\* (mutant) the counter least significant byte first
to_le_bytes(i) == [k \in 1..CounterBytes |-> (i \div Pow(256, k - 1)) % 256]

\* u64::to_be_bytes: the counter most significant byte first
to_be_bytes(i) == [k \in 1..CounterBytes |-> (i \div Pow(256, CounterBytes - k)) % 256]

\* Pubkey::new_unique after the fetch_add returned i: a zeroed array, the
\* counter copied into its leading bytes
new_unique(i) ==
    From([k \in 1..PubkeyBytes |->
             IF k <= CounterBytes THEN to_be_bytes(i)[k] ELSE 0])

\* hex::encode: two lower-case digits for each byte
RECURSIVE hex_encode(_)
hex_encode(bytes) ==
    IF bytes = <<>> THEN <<>>
    ELSE <<HexChars[(Head(bytes) \div 16) + 1], HexChars[(Head(bytes) % 16) + 1]>>
         \o hex_encode(Tail(bytes))

\* A key pair is a positive number.  public_key().serialize() is the
\* compressed public key: a parity byte, then the x coordinate, here the key
\* pair's number big-endian.
public_key_serialize(kp) ==
    <<2 + (kp % 2)>>
    \o [i \in 1..PubkeyBytes |-> (kp \div Pow(256, PubkeyBytes - i)) % 256]

\* Pubkey::from_slice(&program_keypair.public_key().serialize()[1..33])
program_pubkey_bytes_of(kp) ==
    from_slice(SubSeq(public_key_serialize(kp), 2, PubkeyBytes + 1))

\* the derived identifier of a key pair, as text
identifier_of(kp) == hex_encode(serialize(program_pubkey_bytes_of(kp)))

---------------------------------------------------------------------------
(* Key registry (keys.json) *)

WALL == "graffiti_wall_state"

key_name_exists(ks, name) == name \in DOMAIN ks

find_key_name_by_pubkey(ks, pubkey) ==
    IF \E n \in DOMAIN ks : ks[n].pubkey = pubkey
    THEN Some(CHOOSE n \in DOMAIN ks : ks[n].pubkey = pubkey)
    ELSE None

get_pubkey_from_name(name, ks) ==
    IF name \in DOMAIN ks THEN Some(ks[name].pubkey) ELSE None

get_keypair_from_name(name, ks) ==
    IF name \in DOMAIN ks THEN Some(ks[name].kp) ELSE None

\* key generation: a key pair that no record of the registry holds
fresh_keypair(ks) ==
    CHOOSE k \in 1..(Cardinality(DOMAIN ks) + 1) :
        /\ \A n \in DOMAIN ks : ks[n].kp # k
        /\ \A j \in 1..(k - 1) : \E n \in DOMAIN ks : ks[n].kp = j

key_record(kp, owner) == [kp |-> kp, pubkey |-> identifier_of(kp), owner |-> owner]

\* a successful create_account: a new key pair stored under the name
create_account(ks, name, program_id) ==
    (name :> key_record(fresh_keypair(ks), program_id)) @@ ks

---------------------------------------------------------------------------
(* setup.rs helpers *)

\* format!("graffiti_{}", counter)
graffiti_name(counter) == "graffiti_" \o ToString(counter)

\* the loop of create_unique_key_name, entered with (name, counter)
RECURSIVE unique_key_loop(_, _, _)
unique_key_loop(ks, name, counter) ==
    IF key_name_exists(ks, name)
    THEN unique_key_loop(ks, graffiti_name(counter), counter + 1)
    ELSE name

\* (mutant) the counter starts at 2
create_unique_key_name_from_2(ks) == unique_key_loop(ks, "graffiti", 2)

\* lines 185-193
create_unique_key_name(ks) == unique_key_loop(ks, "graffiti", 1)

NODE1_ADDRESS == <<"http://node1">>
DEFAULT_NETWORK == <<"regtest">>

get_rpc_url(args_rpc_url, leader_rpc_endpoint) ==
    IF args_rpc_url.some THEN args_rpc_url.val
    ELSE IF leader_rpc_endpoint.some THEN leader_rpc_endpoint.val
    ELSE NODE1_ADDRESS

\* config.get_string("bitcoin.network").unwrap_or_else(|_| "regtest")
get_network(cfg_network) ==
    IF cfg_network.some THEN cfg_network.val ELSE DEFAULT_NETWORK

---------------------------------------------------------------------------
(* Inputs and initial states *)

\* DemoStartArgs.rpc_url and the configuration's leader_rpc_endpoint
ArgRpcUrls == {None, Some(<<"http://arg">>)}
CfgRpcUrls == {None, Some(<<"http://cfg">>)}
\* the configuration's bitcoin.network
CfgNetworks == {None, Some(<<"testnet">>)}

\* the bundled app/frontend/.env.example: the four keys with empty values and
\* an address to override; the same after a comment that quotes two keys; or
\* no such file in the bundle
PristineTemplate ==
    <<K_PROGRAM, NL, K_WALL, NL, K_NETWORK, NL, K_RPC, "http://old", NL>>
CommentedTemplate ==
    <<"#", K_RPC, "http://example", NL, "OLD_", K_NETWORK, "x", NL>>
    \o PristineTemplate
Templates == {Some(PristineTemplate), Some(CommentedTemplate), None}

\* registries a machine can hold before the first invocation: records made
\* earlier with the account commands, none of them owned by a program
InitNames == {"graffiti", "graffiti_1", WALL}
RECURSIVE registry_of(_, _)
registry_of(names, ks) ==
    IF names = {} THEN ks
    ELSE LET n == CHOOSE m \in names : TRUE
         IN  registry_of(names \ {n}, create_account(ks, n, None))
InitRegistries ==
    {registry_of(S, <<>>) :
        S \in {{}, {"graffiti"}, {"graffiti", "graffiti_1"}, {WALL}}}

\* the registry and the environment file at the start of an invocation, with
\* the program identifier that file names
Snapshot(ks, file) ==
    [keys |-> ks, env |-> file,
     program_value |-> IF file.some THEN env_value(file.val, K_PROGRAM) ELSE <<>>]

NoLocals ==
    [args_rpc_url |-> None, leader_rpc_endpoint |-> None,
     rpc_url |-> <<>>, network |-> <<>>, fs_ops |-> <<>>,
     program_pubkey |-> <<>>,
     graffiti_key_name |-> "", program_keypair |-> 0,
     wall_pubkey |-> <<>>, error |-> ""]

\* a thread that is not inside new_unique
IdleThread == [pc |-> "idle", i |-> 0, began |-> 0]

NoPk == [mode |-> "none", data |-> <<>>, op |-> "",
         pubkey |-> From(<<>>), serialized |-> <<>>, out |-> From(<<>>),
         I |-> I_INITIAL, clock |-> 0, started |-> 0,
         th |-> [t \in 1..MaxThreads |-> IdleThread],
         returned |-> <<>>]

\* the processes that run the pipeline side by side
Invocations == {1, 2}

\* the locals of a process that is not running the pipeline
NoProcess ==
    [pc |-> "idle", n |-> 0, program_pubkey |-> <<>>, graffiti_key_name |-> "",
     program_keypair |-> 0, wall_pubkey |-> <<>>, env_content |-> <<>>,
     error |-> ""]

NoInv == [proc |-> [p \in Invocations |-> NoProcess],
          overlapped |-> FALSE,
          log |-> <<>>]

NoBf == [step |-> 0, file |-> <<>>, out1 |-> <<>>, out2 |-> <<>>,
         rpc_url |-> None, program_pubkey |-> <<>>, wall_pubkey |-> <<>>,
         network |-> <<>>]

Init ==
    /\ keys \in InitRegistries
    /\ tree = [d \in {"common", "program", "bip322", "app"} |-> "absent"]
    /\ projectsDir = FALSE
    /\ demoDir = FALSE
    /\ manifest = FALSE
    /\ template \in Templates
    /\ envExample = None
    /\ env = None
    /\ pc = "idle"
    /\ run = NoLocals
    /\ calls = <<>>
    /\ start = Snapshot(keys, env)
    /\ created = <<>>
    /\ runs = 0
    /\ succeeded = 0
    /\ bf = NoBf
    /\ pk = NoPk
    /\ inv = NoInv

---------------------------------------------------------------------------
(* setup_demo_environment, one action for each step *)

Call(op, name, kp, id, owner, rpc, dir, ok) ==
    [op |-> op, name |-> name, kp |-> kp, id |-> id, owner |-> owner,
     rpc |-> rpc, dir |-> dir, ok |-> ok]

\* (mutant) the error of the call is dropped
after_call_ignored(ok, next) == next

\* ".await?": the position after an external call, the next step when the call
\* returned Ok and the end of the invocation when it returned an error
after_call(ok, next) == IF ok THEN next ELSE "failed"

\* (mutant) the branch of line 109 taken whatever the file names
identity_is_new_always(program_pubkey) == TRUE

\* line 109: program_pubkey.is_empty()
identity_is_new(program_pubkey) == program_pubkey = <<>>

\* (mutant) the check of line 151 never finds the record
wall_exists_never(ks) == FALSE

\* line 151: key_name_exists(&keys_file, "graffiti_wall_state")?
wall_exists(ks) == key_name_exists(ks, WALL)

\* (mutant) the guard of line 59 never finds the directory
demo_exists_never(dir) == FALSE

\* line 35: base_dir.join("common").exists()
common_exists(t) == t["common"] # "absent"

\* line 59: demo_dir.exists()
demo_exists(dir) == dir

Fail(why) ==
    /\ pc' = "failed"
    /\ run' = [run EXCEPT !.error = why]

\* the invocation ends with an error after the file operations ops
FailAfter(ops, why) ==
    /\ pc' = "failed"
    /\ run' = [run EXCEPT !.error = why, !.fs_ops = run.fs_ops \o ops]

\* the invocation goes on to the step next after the file operations ops
GoOnAfter(ops, next) ==
    /\ pc' = next
    /\ run' = [run EXCEPT !.fs_ops = run.fs_ops \o ops]

fs_vars == <<tree, projectsDir, demoDir, manifest, template, envExample, env>>

\* lines 13-32: the invocation starts; network and endpoint are resolved; a
\* configuration without project.directory ends it at once
StartRun ==
    /\ pc \in {"idle", "done", "failed"}
    /\ runs < MaxRuns
    /\ runs' = runs + 1
    /\ calls' = <<>>
    /\ start' = Snapshot(keys, env)
    /\ \E a \in ArgRpcUrls, l \in CfgRpcUrls, n \in CfgNetworks, has_dir \in BOOLEAN :
         /\ run' = [NoLocals EXCEPT !.args_rpc_url = a,
                                    !.leader_rpc_endpoint = l,
                                    !.rpc_url = get_rpc_url(a, l),
                                    !.network = get_network(n),
                                    !.error = IF has_dir THEN "" ELSE "config"]
         /\ pc' = IF has_dir THEN "libs" ELSE "failed"
    /\ UNCHANGED <<keys, created, succeeded, bf, pk, inv>>
    /\ UNCHANGED fs_vars

\* extract_project_files into a directory that does not exist: the whole tree,
\* or, when it fails, nothing or a part of it
ExtractFailures == {"absent", "partial"}

\* lines 34-50: the shared libraries, guarded by base/common
SharedLibraries ==
    /\ pc = "libs"
    /\ \/ /\ common_exists(tree)
          /\ pc' = "demo"
          /\ UNCHANGED <<tree, run>>
       \/ /\ ~common_exists(tree)
          /\ \/ \E f \in ExtractFailures :
                  /\ tree' = [tree EXCEPT !["common"] = f]
                  /\ FailAfter(<<"extract common">>, "extract common")
             \/ \E f \in ExtractFailures :
                  /\ tree' = [tree EXCEPT !["common"] = "full",
                                          !["program"] =
                                              IF @ = "absent" THEN f ELSE @]
                  /\ FailAfter(<<"extract common", "extract program">>,
                               "extract program")
             \/ \E f \in ExtractFailures :
                  /\ tree' = [tree EXCEPT !["common"] = "full",
                                          !["program"] = "full",
                                          !["bip322"] =
                                              IF @ = "absent" THEN f ELSE @]
                  /\ FailAfter(<<"extract common", "extract program",
                                 "extract bip322">>, "extract bip322")
             \/ /\ tree' = [tree EXCEPT !["common"] = "full",
                                        !["program"] = "full",
                                        !["bip322"] = "full"]
                /\ GoOnAfter(<<"extract common", "extract program",
                               "extract bip322">>, "demo")
    /\ UNCHANGED <<keys, projectsDir, demoDir, manifest, template, envExample,
                   env, calls, start, created, runs, succeeded, bf, pk, inv>>

\* lines 52-84: the projects directory, and the demo project guarded by
\* base/projects/demo
DemoProject ==
    /\ pc = "demo"
    /\ \/ /\ Fail("create projects")
          /\ UNCHANGED <<tree, projectsDir, demoDir, manifest, envExample, env>>
       \/ /\ demo_exists(demoDir)
          /\ projectsDir' = TRUE
          /\ pc' = "chdir"
          /\ UNCHANGED <<tree, demoDir, manifest, envExample, env, run>>
       \/ /\ ~demo_exists(demoDir)
          /\ projectsDir' = TRUE
          /\ \/ /\ Fail("create demo")
                /\ UNCHANGED <<tree, demoDir, manifest, envExample, env>>
             \/ /\ demoDir' = TRUE
                /\ \E f \in ExtractFailures :
                     tree' = [tree EXCEPT !["app"] = f]
                /\ envExample' \in
                     IF tree'["app"] = "partial" THEN {None, template} ELSE {None}
                /\ FailAfter(<<"create demo", "extract app">>, "extract app")
                /\ UNCHANGED <<manifest, env>>
             \/ /\ demoDir' = TRUE
                /\ tree' = [tree EXCEPT !["app"] = "full"]
                /\ envExample' = template
                /\ FailAfter(<<"create demo", "extract app">>, "write Cargo.toml")
                /\ UNCHANGED <<manifest, env>>
             \/ /\ demoDir' = TRUE
                /\ tree' = [tree EXCEPT !["app"] = "full"]
                /\ manifest' = TRUE
                /\ template.some
                /\ envExample' = template
                /\ FailAfter(<<"create demo", "extract app", "write Cargo.toml">>,
                             "rename .env.example")
                /\ UNCHANGED env
             \/ /\ demoDir' = TRUE
                /\ tree' = [tree EXCEPT !["app"] = "full"]
                /\ manifest' = TRUE
                /\ envExample' = None
                /\ env' = IF template.some THEN template ELSE env
                /\ GoOnAfter(<<"create demo", "extract app", "write Cargo.toml">>
                             \o (IF template.some THEN <<"rename .env.example">>
                                 ELSE <<>>),
                             "chdir")
    /\ UNCHANGED <<keys, template, calls, start, created, runs, succeeded, bf, pk, inv>>

\* lines 86-87: set_current_dir
ChangeDir ==
    /\ pc = "chdir"
    /\ \/ Fail("chdir")
       \/ pc' = "read" /\ UNCHANGED run
    /\ UNCHANGED <<keys, calls, start, created, runs, succeeded, bf, pk, inv>>
    /\ UNCHANGED fs_vars

\* lines 89-104: the environment file is read and the program identifier taken
\* from its first VITE_PROGRAM_PUBKEY= line
ReadEnv ==
    /\ pc = "read"
    /\ \/ Fail("read .env")
       \/ /\ env.some
          /\ run' = [run EXCEPT !.program_pubkey = env_value(env.val, K_PROGRAM)]
          /\ pc' = "identity"
    /\ UNCHANGED <<keys, calls, start, created, runs, succeeded, bf, pk, inv>>
    /\ UNCHANGED fs_vars

\* lines 106-128: the program identity, created under a fresh name when the
\* file names none, looked up by identifier otherwise
ResolveIdentity ==
    /\ pc = "identity"
    /\ \/ /\ identity_is_new(run.program_pubkey)
          /\ LET name == create_unique_key_name(keys)
             IN  \/ /\ calls' = Append(calls,
                           Call("create_account", name, 0, <<>>, None,
                                run.rpc_url, "", FALSE))
                    /\ Fail("create_account")
                    /\ UNCHANGED <<keys, created>>
                 \/ /\ calls' = Append(calls,
                           Call("create_account", name, 0, <<>>, None,
                                run.rpc_url, "", TRUE))
                    /\ keys' = create_account(keys, name, None)
                    /\ created' = Append(created, name)
                    /\ run' = [run EXCEPT
                                 !.graffiti_key_name = name,
                                 !.program_pubkey =
                                     get_pubkey_from_name(name, keys').val]
                    /\ pc' = "deploy"
       \/ /\ ~identity_is_new(run.program_pubkey)
          /\ LET found == find_key_name_by_pubkey(keys, run.program_pubkey)
             IN  \/ /\ ~found.some
                    /\ Fail("not found")
                 \/ /\ found.some
                    /\ run' = [run EXCEPT !.graffiti_key_name = found.val]
                    /\ pc' = "deploy"
          /\ UNCHANGED <<keys, calls, created>>
    /\ UNCHANGED <<start, runs, succeeded, bf, pk, inv>>
    /\ UNCHANGED fs_vars

\* lines 130-141: the key pair of the resolved name, and the deployment from
\* base/program, which cannot succeed without that directory
DeployProgram ==
    /\ pc = "deploy"
    /\ LET kp == get_keypair_from_name(run.graffiti_key_name, keys)
           id == program_pubkey_bytes_of(kp.val)
       IN  /\ kp.some
           /\ \E ok \in BOOLEAN :
                /\ ok => tree["program"] # "absent"
                /\ calls' = Append(calls,
                       Call("deploy", run.graffiti_key_name, kp.val,
                            hex_encode(serialize(id)), None, run.rpc_url,
                            tree["program"], ok))
                /\ pc' = after_call(ok, "activate")
                /\ run' = [run EXCEPT !.program_keypair = kp.val,
                                      !.error = IF ok THEN "" ELSE "deploy"]
    /\ UNCHANGED <<keys, start, created, runs, succeeded, bf, pk, inv>>
    /\ UNCHANGED fs_vars

\* lines 143-148: make_program_executable
ActivateProgram ==
    /\ pc = "activate"
    /\ \E ok \in BOOLEAN :
         /\ calls' = Append(calls,
                Call("activate", run.graffiti_key_name, run.program_keypair,
                     hex_encode(serialize(program_pubkey_bytes_of(run.program_keypair))),
                     None, run.rpc_url, "", ok))
         /\ pc' = after_call(ok, "wall")
         /\ run' = [run EXCEPT !.error = IF ok THEN "" ELSE "activate"]
    /\ UNCHANGED <<keys, start, created, runs, succeeded, bf, pk, inv>>
    /\ UNCHANGED fs_vars

\* lines 150-172: the state account, reused when its name is in the registry,
\* created for the deployed program otherwise
WallAccount ==
    /\ pc = "wall"
    /\ \/ /\ wall_exists(keys)
          /\ run' = [run EXCEPT !.wall_pubkey = get_pubkey_from_name(WALL, keys).val]
          /\ pc' = "frontend"
          /\ UNCHANGED <<keys, calls, created>>
       \/ /\ ~wall_exists(keys)
          /\ LET owner == Some(hex_encode(serialize(
                              program_pubkey_bytes_of(run.program_keypair))))
             IN  \/ /\ calls' = Append(calls,
                           Call("create_account", WALL, 0, <<>>, owner,
                                run.rpc_url, "", FALSE))
                    /\ Fail("create_account")
                    /\ UNCHANGED <<keys, created>>
                 \/ /\ calls' = Append(calls,
                           Call("create_account", WALL, 0, <<>>, owner,
                                run.rpc_url, "", TRUE))
                    /\ keys' = create_account(keys, WALL, owner)
                    /\ created' = Append(created, WALL)
                    /\ run' = [run EXCEPT !.wall_pubkey =
                                   get_pubkey_from_name(WALL, keys').val]
                    /\ pc' = "frontend"
    /\ UNCHANGED <<start, runs, succeeded, bf, pk, inv>>
    /\ UNCHANGED fs_vars

\* lines 174-182 and build.rs lines 14-37: the file is read, rewritten and
\* written back; a failed write leaves the file as it was or cut short
ConfigureFrontend ==
    /\ pc = "frontend"
    /\ \/ /\ Fail("read .env")
          /\ UNCHANGED <<env, succeeded>>
       \/ /\ env.some
          /\ env' \in {env, Some(<<>>)}
          /\ Fail("write .env")
          /\ UNCHANGED succeeded
       \/ /\ env.some
          /\ env' = Some(build_frontend(env.val, Some(run.rpc_url),
                             run.program_pubkey, run.wall_pubkey, run.network))
          /\ pc' = "done"
          /\ succeeded' = succeeded + 1
          /\ UNCHANGED run
    /\ UNCHANGED <<keys, tree, projectsDir, demoDir, manifest, template,
                   envExample, calls, start, created, runs, bf, pk, inv>>

Next ==
    \/ StartRun
    \/ SharedLibraries
    \/ DemoProject
    \/ ChangeDir
    \/ ReadEnv
    \/ ResolveIdentity
    \/ DeployProgram
    \/ ActivateProgram
    \/ WallAccount
    \/ ConfigureFrontend

Spec == Init /\ [][Next]_vars

---------------------------------------------------------------------------
(* Properties of the pipeline, checked under Spec *)

\* the value the invocation in progress found in the file it started with
start_program_value == start.program_value

\* the invocation started with a file that names the identifier of a record
StartsResumable ==
    /\ runs > 0
    /\ start_program_value # <<>>
    /\ \E n \in DOMAIN start.keys : start.keys[n].pubkey = start_program_value

\* the invocation started with a file that names an identifier of no record
StartsDiverged ==
    /\ runs > 0
    /\ start_program_value # <<>>
    /\ \A n \in DOMAIN start.keys : start.keys[n].pubkey # start_program_value

CallsOf(ops) == {i \in DOMAIN calls : calls[i].op \in ops}

\* C1: an invocation that starts with an environment file naming the
\* identifier of a registry record makes no create_account call for a program
\* key, adds no program key record, and deploys and activates with the key
\* pair of exactly that record.
C1_ResumptionReusesIdentity ==
    StartsResumable =>
        /\ \A i \in CallsOf({"create_account"}) : calls[i].name = WALL
        /\ DOMAIN keys \ DOMAIN start.keys \subseteq {WALL}
        /\ \A i \in CallsOf({"deploy", "activate"}) :
             \E n \in DOMAIN start.keys :
                /\ start.keys[n].pubkey = start_program_value
                /\ calls[i].name = n
                /\ calls[i].kp = start.keys[n].kp
                /\ calls[i].id = start_program_value

C1_Witness ==
    /\ StartsResumable
    /\ pc = "done"
    /\ CallsOf({"deploy"}) # {}
    /\ CallsOf({"activate"}) # {}

\* C2: after every successful invocation that follows only successful ones,
\* the file's VITE_PROGRAM_PUBKEY value is the identifier of the key pair
\* deployed in that invocation and its VITE_WALL_ACCOUNT_PUBKEY value is the
\* identifier of the graffiti_wall_state record.
C2_RepeatedRunsConsistent ==
    (pc = "done" /\ succeeded = runs) =>
        /\ env.some
        /\ env_value(env.val, K_PROGRAM) = identifier_of(run.program_keypair)
        /\ WALL \in DOMAIN keys
        /\ env_value(env.val, K_WALL) = keys[WALL].pubkey

ProgramKeysCreated == {i \in DOMAIN created : created[i] # WALL}

\* C3: over any sequence of failed and re-invoked runs the pipeline creates at
\* most one program key record: a key created in step 5 of a run that then
\* failed is found again by the next run.
C3_AtMostOneProgramKey == Cardinality(ProgramKeysCreated) <= 1

\* the sequence graffiti, graffiti_1, graffiti_2, ...
NameSequence(k) == IF k = 0 THEN "graffiti" ELSE "graffiti_" \o ToString(k)

FirstFreeName(ks, name) ==
    \E k \in 0..Cardinality(DOMAIN ks) :
        /\ name = NameSequence(k)
        /\ name \notin DOMAIN ks
        /\ \A j \in 0..(k - 1) : NameSequence(j) \in DOMAIN ks

\* C4: create_unique_key_name returns the first name of the sequence graffiti,
\* graffiti_1, graffiti_2, ... that the registry does not hold, and every
\* create_account call for a program key is made with such a name, one the
\* registry does not hold at the moment of the call.
C4_CollisionFreeNaming ==
    /\ [](FirstFreeName(keys, create_unique_key_name(keys)))
    /\ [][(pc = "identity" /\ Len(calls') = Len(calls) + 1) =>
             /\ calls'[Len(calls')].op = "create_account"
             /\ calls'[Len(calls')].name \notin DOMAIN keys
             /\ FirstFreeName(keys, calls'[Len(calls')].name)]_vars

C4_Witness ==
    /\ {"graffiti", "graffiti_1"} \subseteq DOMAIN start.keys
    /\ \E i \in CallsOf({"create_account"}) :
          calls[i].name = "graffiti_2" /\ calls[i].ok
    /\ "graffiti_2" \in DOMAIN keys

WallCreations == {i \in DOMAIN created : created[i] = WALL}

\* C5: in step 7 create_account for graffiti_wall_state is called if and only
\* if the registry holds no record of that name; an existing record's
\* identifier is returned and the registry is left as it is; at most one such
\* record is ever created, and no step removes or changes a record.
C5_StateAccountReuse ==
    [][/\ pc = "wall" =>
            /\ (Len(calls') = Len(calls) + 1) <=> (WALL \notin DOMAIN keys)
            /\ Len(calls') = Len(calls) + 1 =>
                  /\ calls'[Len(calls')].op = "create_account"
                  /\ calls'[Len(calls')].name = WALL
            /\ WALL \in DOMAIN keys =>
                  /\ keys' = keys
                  /\ pc' = "frontend"
                  /\ run'.wall_pubkey = keys[WALL].pubkey
       /\ Cardinality({i \in DOMAIN created' : created'[i] = WALL}) <= 1
       /\ \A n \in DOMAIN keys : n \in DOMAIN keys' /\ keys'[n] = keys[n]]_vars

C5_Witness ==
    /\ pc = "done"
    /\ WallCreations # {}
    /\ WALL \in DOMAIN start.keys
    /\ run.wall_pubkey = keys[WALL].pubkey

\* C6: an invocation that starts with an environment file naming a program
\* identifier of no registry record ends at step 5 with the not-found error
\* (unless an earlier step failed); it creates no registry record, calls
\* neither deploy nor activate, and leaves the environment file unchanged.
C6_DivergedFileIsFatal ==
    StartsDiverged =>
        /\ pc \in {"libs", "demo", "chdir", "read", "identity", "failed"}
        /\ pc = "failed" =>
              run.error \in {"config", "create projects", "chdir", "read .env",
                             "not found"}
        /\ keys = start.keys
        /\ calls = <<>>
        /\ env = start.env

C6_Witness ==
    /\ StartsDiverged
    /\ pc = "failed"
    /\ run.error = "not found"

\* the steps that make an external call, and the error each one ends with
CallErrors == {"create_account", "deploy", "activate"}

\* the environment file is as the invocation found it, or as step 3 of this
\* invocation put the template in place
EnvNotConfigured ==
    \/ env = start.env
    \/ ~start.env.some /\ env = template

\* C7: the first failing step ends the invocation with its error; no later
\* step acts in that invocation (a failed deploy: no activate call, no
\* state-account creation, no write to the environment file); no external call
\* is made twice in one invocation.
C7_FailFast ==
    /\ [](/\ \A i \in DOMAIN calls :
               ~calls[i].ok => (i = Len(calls) /\ pc = "failed"
                                /\ run.error = calls[i].op)
          /\ \A i, j \in DOMAIN calls :
               (calls[i].op = calls[j].op /\ calls[i].name = calls[j].name)
                  => i = j
          /\ \A i, j \in DOMAIN calls :
               (i < j /\ calls[i].op = "deploy") =>
                  (calls[j].op = "activate"
                     \/ (calls[j].op = "create_account" /\ calls[j].name = WALL))
          /\ (pc = "failed" /\ run.error = "deploy") =>
               /\ CallsOf({"activate"}) = {}
               /\ \A i \in CallsOf({"create_account"}) : calls[i].name # WALL
               /\ (WALL \in DOMAIN keys <=> WALL \in DOMAIN start.keys)
          /\ (pc = "failed" /\ run.error # "write .env") => EnvNotConfigured
          /\ (pc = "failed" /\ run.error \notin CallErrors) =>
               \A i \in DOMAIN calls : calls[i].ok)
    /\ [][pc = "failed" =>
             /\ runs' = runs + 1
             /\ keys' = keys /\ env' = env /\ created' = created
             /\ tree' = tree /\ demoDir' = demoDir
             /\ calls' = <<>>]_vars

C7_Witness ==
    /\ pc = "failed"
    /\ run.error = "deploy"
    /\ Len(calls) = 2
    /\ calls[1].op = "create_account" /\ calls[1].ok
    /\ calls[2].op = "deploy" /\ ~calls[2].ok

\* the state a run leaves when it has materialized the shared libraries and
\* the demo project: the four trees complete, the manifest rewritten and the
\* example file renamed
Materialized ==
    /\ \A d \in DOMAIN tree : tree[d] = "full"
    /\ projectsDir /\ demoDir /\ manifest
    /\ ~envExample.some

\* C11: once a run has materialized the shared libraries and the demo
\* project, no later step changes the trees, the manifest or the example
\* file, and steps 2 and 3 of every later run perform no file operation at
\* all: no extraction, no manifest write, no rename, the environment file
\* left as it was.
C11_MaterializationIdempotent ==
    [][Materialized =>
          /\ tree' = tree /\ projectsDir' = projectsDir /\ demoDir' = demoDir
          /\ manifest' = manifest /\ envExample' = envExample
          /\ pc \in {"libs", "demo"} =>
                /\ run.fs_ops = <<>> /\ run'.fs_ops = <<>>
                /\ env' = env]_vars

\* a later run has passed steps 2 and 3 of a materialized installation
\* without a file operation
C11_Witness ==
    /\ runs >= 2
    /\ pc = "chdir"
    /\ Materialized
    /\ env.some
    /\ run.fs_ops = <<>>

\* the address the priority rule selects from the inputs of this invocation
PriorityRpcUrl ==
    IF run.args_rpc_url.some THEN run.args_rpc_url.val
    ELSE IF run.leader_rpc_endpoint.some THEN run.leader_rpc_endpoint.val
    ELSE NODE1_ADDRESS

\* the resolved address is the command-line value, else the configured one,
\* else the default, and every external call of the invocation receives it
RpcUrlResolvedAndPassed ==
    runs > 0 =>
        /\ run.rpc_url = PriorityRpcUrl
        /\ \A i \in DOMAIN calls : calls[i].rpc = run.rpc_url

\* C12: the node address of an invocation is the command-line value if
\* present, else the configured one, else the default; that one value is
\* passed to key creation, deployment and activation, is the value of
\* VITE_RPC_URL in the environment file after a successful run, and is the
\* address of the returned tuple.
C12_RpcPriority ==
    /\ RpcUrlResolvedAndPassed
    /\ pc = "done" =>
          /\ env.some
          /\ env_value(env.val, K_RPC) = PriorityRpcUrl

\* the invocation failed although no call and no file operation was refused:
\* the environment file it reads does not exist, the identifier it looks up
\* is in no record, or the directory it deploys from does not exist
UnavoidableFailure ==
    /\ pc = "failed"
    /\ \/ run.error = "read .env" /\ ~env.some
       \/ run.error = "not found"
       \/ /\ run.error = "deploy"
          /\ calls[Len(calls)].dir = "absent"

\* the invocation has changed neither the files nor the registry
NothingChanged ==
    /\ run.fs_ops = <<>>
    /\ keys = start.keys
    /\ env = start.env

\* C16: in a state left by failed runs (of an installation whose bundle has
\* the example file), a re-invocation in which every call and every file
\* operation succeeds ends in the terminal state, or has at least changed
\* the state so that a later re-invocation can; it never fails leaving
\* everything as it found it, which would make every later run fail alike.
C16_ReinvocationSucceeds ==
    (runs >= 2 /\ succeeded = 0 /\ template.some) =>
        ~(UnavoidableFailure /\ NothingChanged)

\* C17: when base/common exists at the start of an invocation, the three
\* shared trees common, program and bip322 are completely materialized, and
\* no deployment is made from a missing or partial base/program.
C17_GuardImpliesCompleteLibraries ==
    /\ (pc = "libs" /\ common_exists(tree)) =>
          \A d \in {"common", "program", "bip322"} : tree[d] = "full"
    /\ \A i \in CallsOf({"deploy"}) : calls[i].dir = "full"

\* the invocation that materializes the shared libraries itself deploys from
\* a complete base/program
DeploysFromOwnExtraction ==
    (run.fs_ops # <<>> /\ run.fs_ops[1] = "extract common") =>
        \A i \in CallsOf({"deploy"}) : calls[i].dir = "full"

\* the key pair of the record the invocation resolved in step 5
ResolvedKeypair == keys[run.graffiti_key_name].kp

\* C18: within one invocation the program identity is resolved before the
\* deployment; the deployment has succeeded before the activation is called;
\* the activation has succeeded before the state account is looked up or
\* created; the environment file is written only after all of these; the
\* deployment and the activation use the key pair of the record resolved in
\* step 5, and the identifier passed to the activation is derived from it.
C18_StepOrdering ==
    /\ \A i \in CallsOf({"deploy"}) :
          /\ run.graffiti_key_name \in DOMAIN keys
          /\ calls[i].name = run.graffiti_key_name
          /\ calls[i].kp = ResolvedKeypair
          /\ \A j \in 1..(i - 1) :
                calls[j].op = "create_account" /\ calls[j].name # WALL
    /\ \A i \in CallsOf({"activate"}) :
          /\ i > 1
          /\ calls[i - 1].op = "deploy" /\ calls[i - 1].ok
          /\ calls[i].kp = ResolvedKeypair
          /\ calls[i].id = identifier_of(ResolvedKeypair)
    /\ (\/ pc \in {"frontend", "done"}
        \/ run.wall_pubkey # <<>>
        \/ \E j \in DOMAIN calls : calls[j].name = WALL) =>
          \E i \in CallsOf({"activate"}) :
              /\ calls[i].ok
              /\ \A j \in DOMAIN calls : calls[j].name = WALL => i < j
    /\ (runs > 0 /\ ~EnvNotConfigured) =>
          /\ \E i \in CallsOf({"deploy"}) : calls[i].ok
          /\ \E i \in CallsOf({"activate"}) : calls[i].ok
          /\ WALL \in DOMAIN keys
          /\ run.wall_pubkey = keys[WALL].pubkey
          /\ \A i \in DOMAIN calls : calls[i].ok

\* an invocation has created the program key, deployed, activated, created
\* the state account and written the environment file, in that order
C18_Witness ==
    /\ pc = "done"
    /\ ~EnvNotConfigured
    /\ Len(calls) = 4
    /\ calls[1].op = "create_account" /\ calls[1].name = run.graffiti_key_name
    /\ calls[2].op = "deploy" /\ calls[2].kp = ResolvedKeypair
    /\ calls[3].op = "activate" /\ calls[3].id = identifier_of(ResolvedKeypair)
    /\ calls[4].op = "create_account" /\ calls[4].name = WALL

\* C19: after every successful invocation, whatever failed or successful
\* invocations came before it, the owning program identifier the pipeline
\* gave the record graffiti_wall_state when it created it is the identifier
\* of the program this invocation deployed and returned, the one it wrote to
\* VITE_PROGRAM_PUBKEY.
C19_StateAccountBelongsToProgram ==
    (pc = "done" /\ \E i \in DOMAIN created : created[i] = WALL) =>
        /\ keys[WALL].owner.some
        /\ keys[WALL].owner.val = identifier_of(run.program_keypair)
        /\ keys[WALL].owner.val = run.program_pubkey

\* an invocation that creates the state account itself gives it the
\* identifier of the program it deployed
OwnerIsDeployedProgramWhenCreated ==
    (pc = "done" /\ \E i \in DOMAIN calls : calls[i].name = WALL) =>
        /\ keys[WALL].owner.some
        /\ keys[WALL].owner.val = identifier_of(run.program_keypair)
        /\ keys[WALL].owner.val = run.program_pubkey

---------------------------------------------------------------------------
(* build_frontend called directly on a given file: SpecBuild *)

\* the lines an environment file is made of: the three keys with an empty
\* value, the address line, a comment that quotes the address key, a longer
\* key that ends in a recognised one, and a comment
BuildLines ==
    {<<K_PROGRAM>>, <<K_WALL>>, <<K_NETWORK>>,
     <<K_RPC, "http://old">>,
     <<"#", K_RPC, "http://old">>,
     <<"OLD_", K_NETWORK, "x">>,
     <<"#">>}

RECURSIVE join(_)
join(ls) ==
    IF ls = <<>> THEN <<>>
    ELSE IF Len(ls) = 1 THEN Head(ls)
    ELSE Head(ls) \o <<NL>> \o join(Tail(ls))

LineSeqs == UNION {[1..n -> BuildLines] : n \in 1..MaxLines}

\* with and without a line feed after the last line
EnvFiles == {join(ls) : ls \in LineSeqs} \cup {join(ls) \o <<NL>> : ls \in LineSeqs}

BuildRpcUrls == {None, Some(<<"http://old">>), Some(<<"http://new">>)}
BuildProgramIds == {identifier_of(1)}
BuildWallIds == {identifier_of(2)}
BuildNetworks == {DEFAULT_NETWORK}

InitBuild ==
    /\ keys = <<>>
    /\ tree = [d \in {"common", "program", "bip322", "app"} |-> "absent"]
    /\ projectsDir = FALSE
    /\ demoDir = FALSE
    /\ manifest = FALSE
    /\ template = None
    /\ envExample = None
    /\ env = None
    /\ pc = "idle"
    /\ run = NoLocals
    /\ calls = <<>>
    /\ start = Snapshot(<<>>, None)
    /\ created = <<>>
    /\ runs = 0
    /\ succeeded = 0
    /\ pk = NoPk
    /\ inv = NoInv
    /\ \E f \in EnvFiles, u \in BuildRpcUrls, p \in BuildProgramIds,
          w \in BuildWallIds, n \in BuildNetworks :
         bf = [NoBf EXCEPT !.file = f, !.rpc_url = u, !.program_pubkey = p,
                           !.wall_pubkey = w, !.network = n]

pipeline_vars == <<keys, tree, projectsDir, demoDir, manifest, template,
                   envExample, env, pc, run, calls, start, created, runs,
                   succeeded, pk, inv>>

\* build_frontend on the file as given
Configure ==
    /\ bf.step = 0
    /\ bf' = [bf EXCEPT !.step = 1,
                        !.out1 = build_frontend(bf.file, bf.rpc_url,
                                     bf.program_pubkey, bf.wall_pubkey, bf.network)]
    /\ UNCHANGED pipeline_vars

\* build_frontend once more, with the same arguments, on the file it wrote
ConfigureAgain ==
    /\ bf.step = 1
    /\ bf' = [bf EXCEPT !.step = 2,
                        !.out2 = build_frontend(bf.out1, bf.rpc_url,
                                     bf.program_pubkey, bf.wall_pubkey, bf.network)]
    /\ UNCHANGED pipeline_vars

NextBuild == Configure \/ ConfigureAgain

SpecBuild == InitBuild /\ [][NextBuild]_vars

---------------------------------------------------------------------------
(* Properties of build_frontend, checked under SpecBuild *)

Count(s, t) == Cardinality({i \in DOMAIN s : s[i] = t})

StartsWith(line, key) == line # <<>> /\ Head(line) = key

\* a pristine template: each of the three keys occurs once in the file, as a
\* line of its own with an empty value, and the address key occurs once, at
\* the start of its line
Pristine(file) ==
    /\ \A k \in {K_PROGRAM, K_WALL, K_NETWORK} :
          /\ Count(file, k) = 1
          /\ \E i \in DOMAIN lines(file) : lines(file)[i] = <<k>>
    /\ Count(file, K_RPC) = 1
    /\ \E i \in DOMAIN lines(file) : StartsWith(lines(file)[i], K_RPC)

ConfiguredLine(line) ==
    IF line = <<K_PROGRAM>> THEN <<K_PROGRAM>> \o bf.program_pubkey
    ELSE IF line = <<K_WALL>> THEN <<K_WALL>> \o bf.wall_pubkey
    ELSE IF line = <<K_NETWORK>> THEN <<K_NETWORK>> \o bf.network
    ELSE IF StartsWith(line, K_RPC) THEN <<K_RPC>> \o bf.rpc_url.val
    ELSE line

RpcLines(file) ==
    {i \in DOMAIN lines(file) : StartsWith(lines(file)[i], K_RPC)}

\* C9: for every file with a VITE_RPC_URL line, whatever its value, and every
\* address u, after build_frontend with Some(u) that line is exactly
\* VITE_RPC_URL=u, and a second call with the same u leaves it so.
C9_RpcOverrideIdempotent ==
    (bf.step >= 1 /\ bf.rpc_url.some /\ Cardinality(RpcLines(bf.file)) = 1) =>
        \A i \in RpcLines(bf.file) :
            /\ i \in DOMAIN lines(bf.out1)
            /\ lines(bf.out1)[i] = <<K_RPC>> \o bf.rpc_url.val
            /\ bf.step = 2 =>
                  /\ i \in DOMAIN lines(bf.out2)
                  /\ lines(bf.out2)[i] = lines(bf.out1)[i]

Recognized(line) == \E k \in RecognizedKeys : StartsWith(line, k)

\* C10: every line that is not the line of a recognised key, a line that only
\* contains a recognised key further in included, is the same and in the same
\* position after build_frontend.
C10_UnrecognizedLinesUntouched ==
    bf.step >= 1 =>
        /\ Len(lines(bf.out1)) = Len(lines(bf.file))
        /\ \A i \in DOMAIN lines(bf.file) :
              ~Recognized(lines(bf.file)[i]) =>
                  lines(bf.out1)[i] = lines(bf.file)[i]

---------------------------------------------------------------------------
(* The Pubkey functions called directly, and new_unique called from the    *)
(* threads of one process: SpecPubkey                                       *)

\* byte values the slices are made of
ByteSamples == {0, 1, 255}

RECURSIVE SlicesOfLen(_)
SlicesOfLen(n) ==
    IF n = 0 THEN {<<>>}
    ELSE {<<b>> \o d : b \in ByteSamples, d \in SlicesOfLen(n - 1)}

\* the byte slices handed to from_slice: every length up to one byte more
\* than the array holds
Slices == UNION {SlicesOfLen(n) : n \in 0..(PubkeyBytes + 1)}

\* calls of new_unique the process made before the behaviour starts
EarlierCalls == {0, 254}

\* the pipeline has not run
PipelineUntouched ==
    /\ keys = <<>>
    /\ tree = [d \in {"common", "program", "bip322", "app"} |-> "absent"]
    /\ projectsDir = FALSE
    /\ demoDir = FALSE
    /\ manifest = FALSE
    /\ template = None
    /\ envExample = None
    /\ env = None
    /\ pc = "idle"
    /\ run = NoLocals
    /\ calls = <<>>
    /\ start = Snapshot(<<>>, None)
    /\ created = <<>>
    /\ runs = 0
    /\ succeeded = 0

InitPubkey ==
    /\ PipelineUntouched
    /\ bf = NoBf
    /\ inv = NoInv
    /\ \/ \E d \in Slices : pk = [NoPk EXCEPT !.mode = "bytes", !.data = d]
       \/ \E e \in EarlierCalls :
            pk = [NoPk EXCEPT !.mode = "threads", !.I = I_INITIAL + e]

fixed_vars == <<keys, tree, projectsDir, demoDir, manifest, template,
                envExample, env, pc, run, calls, start, created, runs,
                succeeded, bf, inv>>

\* the property test of lines 107-115 on an array of the identifier's size:
\* Pubkey::from(data), serialize, from_slice
RoundTrip ==
    /\ pk.mode = "bytes" /\ pk.op = ""
    /\ Len(pk.data) = PubkeyBytes
    /\ LET pubkey == From(pk.data)
           serialized == serialize(pubkey)
           deserialized == from_slice(serialized)
       IN  pk' = [pk EXCEPT !.op = "round_trip", !.pubkey = pubkey,
                            !.serialized = serialized, !.out = deserialized]
    /\ UNCHANGED fixed_vars

\* Pubkey::from_slice on a slice of any length
FromSlice ==
    /\ pk.mode = "bytes" /\ pk.op = ""
    /\ pk' = [pk EXCEPT !.op = "from_slice", !.out = from_slice(pk.data)]
    /\ UNCHANGED fixed_vars

\* a thread enters new_unique
Invoke(t) ==
    /\ pk.mode = "threads"
    /\ pk.th[t].pc = "idle"
    /\ pk.started < MaxCalls
    /\ pk' = [pk EXCEPT !.th[t] = [pc |-> "fetch", i |-> 0, began |-> pk.clock + 1],
                        !.clock = pk.clock + 1,
                        !.started = pk.started + 1]
    /\ UNCHANGED fixed_vars

\* line 51: let i = I.fetch_add(1)
FetchAdd(t) ==
    /\ pk.mode = "threads"
    /\ pk.th[t].pc = "fetch"
    /\ LET r == fetch_add(pk.I, 1)
       IN  pk' = [pk EXCEPT !.I = r.new,
                            !.th[t].i = r.old,
                            !.th[t].pc = "build"]
    /\ UNCHANGED fixed_vars

\* lines 50-55: the array is built from i and the call returns
Return(t) ==
    /\ pk.mode = "threads"
    /\ pk.th[t].pc = "build"
    /\ pk' = [pk EXCEPT !.th[t] = IdleThread,
                        !.clock = pk.clock + 1,
                        !.returned = Append(pk.returned,
                            [id |-> new_unique(pk.th[t].i), i |-> pk.th[t].i,
                             thread |-> t, began |-> pk.th[t].began,
                             ended |-> pk.clock + 1])]
    /\ UNCHANGED fixed_vars

NextPubkey ==
    \/ RoundTrip
    \/ FromSlice
    \/ \E t \in 1..MaxThreads : Invoke(t)
    \/ \E t \in 1..MaxThreads : FetchAdd(t)
    \/ \E t \in 1..MaxThreads : Return(t)

SpecPubkey == InitPubkey /\ [][NextPubkey]_vars

---------------------------------------------------------------------------
(* Properties of the Pubkey functions, checked under SpecPubkey *)

\* C13: for every array b of the identifier's size, from_slice of the
\* serialization of Pubkey::from(b) equals Pubkey::from(b) and is returned
\* without a panic, and serialize returns exactly b.
C13_IdentifierRoundTrip ==
    pk.op = "round_trip" =>
        /\ pk.serialized = pk.data
        /\ ~pk.out.panic
        /\ pk.out = pk.pubkey
        /\ Len(pk.out.bytes) = PubkeyBytes

\* the round trip of an array whose last byte is not zero
C13_Witness ==
    /\ pk.op = "round_trip"
    /\ Len(pk.data) = PubkeyBytes
    /\ pk.data[PubkeyBytes] = 255
    /\ pk.data[1] = 1

\* the number a byte sequence is when read most significant byte first
RECURSIVE be_value(_)
be_value(bytes) ==
    IF bytes = <<>> THEN 0
    ELSE be_value(SubSeq(bytes, 1, Len(bytes) - 1)) * 256 + bytes[Len(bytes)]

\* two returned calls of new_unique overlapped in time
Overlapped(a, b) == a.began < b.ended /\ b.began < a.ended

\* C14: the identifiers returned by the calls of new_unique of one process,
\* made from its threads in any interleaving, are pairwise distinct; a call
\* that began after another returned has the lexicographically greater
\* identifier; every identifier holds the counter big-endian in its leading
\* bytes and zero in the rest.
C14_UniqueGenerator ==
    \A m, n \in DOMAIN pk.returned :
        LET a == pk.returned[m]
            b == pk.returned[n]
        IN  /\ m # n => a.id # b.id
            /\ a.ended < b.began => cmp_less(serialize(a.id), serialize(b.id))
            /\ ~a.id.panic
            /\ Len(serialize(a.id)) = PubkeyBytes
            /\ be_value(SubSeq(serialize(a.id), 1, CounterBytes)) = a.i
            /\ \A k \in (CounterBytes + 1)..PubkeyBytes : serialize(a.id)[k] = 0

\* every call has returned, two of them overlapped and returned in the order
\* opposite to their counter values, and two made one after another lie on
\* the two sides of a carry into the next byte of the counter
C14_Witness ==
    /\ Len(pk.returned) = MaxCalls
    /\ \E m, n \in DOMAIN pk.returned :
          /\ m < n
          /\ Overlapped(pk.returned[m], pk.returned[n])
          /\ pk.returned[m].i > pk.returned[n].i
    /\ \E m, n \in DOMAIN pk.returned :
          /\ pk.returned[m].ended < pk.returned[n].began
          /\ pk.returned[m].i = 255
          /\ pk.returned[n].i >= 256

\* the smaller of two numbers
Min(a, b) == IF a < b THEN a ELSE b

\* C15: for a byte slice of any length n, longer than the array included,
\* from_slice returns, without a panic, the identifier whose first
\* min(n, size) bytes are the first bytes of the slice and whose other bytes
\* are zero.
C15_FromSliceCannotFail ==
    pk.op = "from_slice" =>
        /\ ~pk.out.panic
        /\ Len(pk.out.bytes) = PubkeyBytes
        /\ \A k \in 1..PubkeyBytes :
              pk.out.bytes[k] =
                  IF k <= Min(Len(pk.data), PubkeyBytes) THEN pk.data[k] ELSE 0

\* a slice no longer than the array is copied and zero-padded without a panic
FromSliceNoLongerThanArray ==
    (pk.op = "from_slice" /\ Len(pk.data) <= PubkeyBytes) =>
        /\ ~pk.out.panic
        /\ \A k \in 1..PubkeyBytes :
              pk.out.bytes[k] = IF k <= Len(pk.data) THEN pk.data[k] ELSE 0

---------------------------------------------------------------------------
(* Two processes run setup_demo_environment on one base directory and one  *)
(* registry, every external call succeeding: SpecTwo.  A step is what a    *)
(* process does between two accesses to the shared files.                  *)

\* a materialized installation whose environment file is the template
InitTwo ==
    /\ keys \in InitRegistries
    /\ tree = [d \in {"common", "program", "bip322", "app"} |-> "full"]
    /\ projectsDir = TRUE
    /\ demoDir = TRUE
    /\ manifest = TRUE
    /\ template = Some(PristineTemplate)
    /\ envExample = None
    /\ env = template
    /\ pc = "idle"
    /\ run = NoLocals
    /\ calls = <<>>
    /\ start = Snapshot(keys, env)
    /\ created = <<>>
    /\ runs = 0
    /\ succeeded = 0
    /\ bf = NoBf
    /\ pk = NoPk
    /\ inv = NoInv

single_vars == <<tree, projectsDir, demoDir, manifest, template, envExample,
                 pc, run, calls, start, succeeded, bf, pk>>

Running(p) == inv.proc[p].pc \notin {"idle", "done", "failed"}

\* lines 13-87: a process starts the pipeline and finds everything
\* materialized
StartTwo(p) ==
    /\ ~Running(p)
    /\ runs < MaxRuns
    /\ runs' = runs + 1
    /\ inv' = [inv EXCEPT
                 !.proc[p] = [NoProcess EXCEPT !.pc = "read", !.n = runs + 1],
                 !.overlapped = @ \/ \E q \in Invocations \ {p} : Running(q)]
    /\ UNCHANGED <<keys, env, created>>
    /\ UNCHANGED single_vars

\* lines 97-104
ReadEnvTwo(p) ==
    /\ inv.proc[p].pc = "read"
    /\ env.some
    /\ inv' = [inv EXCEPT !.proc[p].program_pubkey = env_value(env.val, K_PROGRAM),
                          !.proc[p].pc = "identity"]
    /\ UNCHANGED <<keys, env, created, runs>>
    /\ UNCHANGED single_vars

\* lines 109-111 and 124-128: the name is chosen, or looked up by identifier
ChooseNameTwo(p) ==
    /\ inv.proc[p].pc = "identity"
    /\ IF identity_is_new(inv.proc[p].program_pubkey)
       THEN inv' = [inv EXCEPT
                      !.proc[p].graffiti_key_name = create_unique_key_name(keys),
                      !.proc[p].pc = "create"]
       ELSE LET found == find_key_name_by_pubkey(keys, inv.proc[p].program_pubkey)
            IN  IF found.some
                THEN inv' = [inv EXCEPT !.proc[p].graffiti_key_name = found.val,
                                        !.proc[p].pc = "deploy"]
                ELSE inv' = [inv EXCEPT !.proc[p].error = "not found",
                                        !.proc[p].pc = "failed"]
    /\ UNCHANGED <<keys, env, created, runs>>
    /\ UNCHANGED single_vars

\* create_account under a name: the record is stored; under a name another
\* process has stored meanwhile the record is replaced or the call fails
CreateTwo(p, name, program_id, next) ==
    /\ inv.proc[p].pc \in {"create", "wallcreate"}
    /\ \/ /\ keys' = create_account(keys, name, program_id)
          /\ created' = Append(created, name)
          /\ inv' = [inv EXCEPT
                       !.log = Append(@, [n |-> inv.proc[p].n, name |-> name]),
                       !.proc[p].pc = next,
                       !.proc[p].program_pubkey =
                           IF name = WALL THEN @
                           ELSE get_pubkey_from_name(name, keys').val,
                       !.proc[p].wall_pubkey =
                           IF name = WALL
                           THEN get_pubkey_from_name(name, keys').val ELSE @]
       \/ /\ key_name_exists(keys, name)
          /\ inv' = [inv EXCEPT
                       !.log = Append(@, [n |-> inv.proc[p].n, name |-> name]),
                       !.proc[p].pc = "failed",
                       !.proc[p].error = "create_account"]
          /\ UNCHANGED <<keys, created>>
    /\ UNCHANGED <<env, runs>>
    /\ UNCHANGED single_vars

\* lines 113-123
CreateProgramKeyTwo(p) ==
    /\ inv.proc[p].pc = "create"
    /\ CreateTwo(p, inv.proc[p].graffiti_key_name, None, "deploy")

\* lines 130-148: the key pair is read from the registry, the program is
\* deployed and activated
DeployTwo(p) ==
    /\ inv.proc[p].pc = "deploy"
    /\ LET kp == get_keypair_from_name(inv.proc[p].graffiti_key_name, keys)
       IN  /\ kp.some
           /\ inv' = [inv EXCEPT !.proc[p].program_keypair = kp.val,
                                 !.proc[p].pc = "wall"]
    /\ UNCHANGED <<keys, env, created, runs>>
    /\ UNCHANGED single_vars

\* lines 151-157: the check for the state account, and its reuse
WallCheckTwo(p) ==
    /\ inv.proc[p].pc = "wall"
    /\ IF wall_exists(keys)
       THEN inv' = [inv EXCEPT
                      !.proc[p].wall_pubkey = get_pubkey_from_name(WALL, keys).val,
                      !.proc[p].pc = "frontend"]
       ELSE inv' = [inv EXCEPT !.proc[p].pc = "wallcreate"]
    /\ UNCHANGED <<keys, env, created, runs>>
    /\ UNCHANGED single_vars

\* lines 158-171
CreateWallTwo(p) ==
    /\ inv.proc[p].pc = "wallcreate"
    /\ CreateTwo(p, WALL,
                 Some(hex_encode(serialize(
                     program_pubkey_bytes_of(inv.proc[p].program_keypair)))),
                 "frontend")

\* build.rs lines 14-15: build_frontend reads the file
BuildReadTwo(p) ==
    /\ inv.proc[p].pc = "frontend"
    /\ env.some
    /\ inv' = [inv EXCEPT !.proc[p].env_content = env.val,
                          !.proc[p].pc = "write"]
    /\ UNCHANGED <<keys, env, created, runs>>
    /\ UNCHANGED single_vars

\* build.rs lines 17-35: the content read is rewritten and written back
BuildWriteTwo(p) ==
    /\ inv.proc[p].pc = "write"
    /\ env' = Some(build_frontend(inv.proc[p].env_content, Some(NODE1_ADDRESS),
                        inv.proc[p].program_pubkey, inv.proc[p].wall_pubkey,
                        DEFAULT_NETWORK))
    /\ inv' = [inv EXCEPT !.proc[p].pc = "done"]
    /\ UNCHANGED <<keys, created, runs>>
    /\ UNCHANGED single_vars

NextTwo ==
    \E p \in Invocations :
        \/ StartTwo(p)
        \/ ReadEnvTwo(p)
        \/ ChooseNameTwo(p)
        \/ CreateProgramKeyTwo(p)
        \/ DeployTwo(p)
        \/ WallCheckTwo(p)
        \/ CreateWallTwo(p)
        \/ BuildReadTwo(p)
        \/ BuildWriteTwo(p)

SpecTwo == InitTwo /\ [][NextTwo]_vars

---------------------------------------------------------------------------
(* Properties of interleaved invocations, checked under SpecTwo *)

\* two invocations called create_account with one name
SameNameCreated ==
    \E i, j \in DOMAIN inv.log :
        inv.log[i].n # inv.log[j].n /\ inv.log[i].name = inv.log[j].name

\* the environment file holds the values of two invocations: its program
\* identifier is made of the identifiers of two different program keys
EnvFromTwoRuns ==
    /\ env.some
    /\ \E a, b \in DOMAIN keys :
          /\ a # b /\ a # WALL /\ b # WALL
          /\ env_value(env.val, K_PROGRAM) = keys[a].pubkey \o keys[b].pubkey

====
